---- MODULE Spec2Model ----
(***************************************************************************)
(* The email pipeline of email_assistant_LLM as a state machine:           *)
(*   email_monitor.py  - the Ingestor: polls Gmail, INSERT OR IGNOREs      *)
(*                       each message into `emails`, marks it read;        *)
(*   process_email.py  - the Analyzer: selects the pending rows, calls the *)
(*                       model twice per row, UPDATEs the row;             *)
(*   dashboard.py      - the resolve button (update_email_status);         *)
(*   database_setup.py - the `emails` table.                               *)
(* Every external call (Gmail, Gemini, SQLite) is one step; the steps of   *)
(* different processes interleave.                                         *)
(***************************************************************************)
EXTENDS Naturals, Sequences, FiniteSets, TLC

VARIABLES
    unread,     \* provider: the ids of the messages carrying the UNREAD label
    emails,     \* store: the rows of table `emails`, row i has id i
    monitor,    \* per Ingestor process: position and locals of main/check_for_new_emails
    analyzer,   \* per Analyzer invocation: position and locals of process_email.main
    df,         \* dashboard: the cached DataFrame of load_data (row id -> status)
    calls       \* per Analyzer invocation: the log of its current pass (the rows
                \* selected, the rows each model call was made for)

vars == <<unread, emails, monitor, analyzer, df, calls>>

-----------------------------------------------------------------------------
(* Bounds and program constants *)

\* How many messages the mailbox holds (ids 1..NumMsgs).
NumMsgs == 4

\* maxResults of the list call.
MAX_RESULTS == 10

\* SQL NULL / Python None.
NULL == "NULL"

\* The literal generate_response returns when the model call raises.
FALLBACK == "Failed to generate a response."

Monitors == {"i1", "i2"}
Analyzers == {"a1", "a2"}

-----------------------------------------------------------------------------
(* The mailbox: what the provider's get call returns for each message id.  *)
(* Messages 1 and 2 are well formed (one multipart, one single-part),      *)
(* message 3 has no Date header, message 4 has a Date header that          *)
(* parsedate_to_datetime rejects, message 5 has no keyword in its subject. *)

MsgIds == 1..NumMsgs

Kind(m) == ((m - 1) % 5) + 1

\* The Subject header's words that the query's keywords are matched against.
SubjectOf(m) ==
    CASE Kind(m) = 1 -> <<"Support", "cannot", "log", "in">>
      [] Kind(m) = 2 -> <<"Help", "billing">>
      [] Kind(m) = 3 -> <<"Query">>
      [] Kind(m) = 4 -> <<"Request", "refund">>
      [] OTHER       -> <<"Newsletter">>

\* The Date header: a parseable date, no header at all, or an unparseable value.
DateHeaderOf(m) ==
    CASE Kind(m) = 3 -> "N/A"
      [] Kind(m) = 4 -> "not a date"
      [] OTHER       -> "Mon, 02 Nov 2026 10:00:00 +0000"

\* payload: multipart (parts) or single-part (body); data is base64url text.
PayloadOf(m) ==
    IF Kind(m) = 1
    THEN [multipart |-> TRUE,
          parts |-> << [mimeType |-> "text/html",  data |-> "PGI-"],
                       [mimeType |-> "text/plain", data |-> "SSBjYW4ndA"] >>,
          data |-> ""]
    ELSE [multipart |-> FALSE, parts |-> << >>, data |-> "SGVscA"]

SenderOf(m) == IF Kind(m) = 1 THEN "ann@example.com" ELSE "bob@example.com"

\* query = 'is:unread subject:(Support OR Query OR Request OR Help)'
KEYWORDS == {"Support", "Query", "Request", "Help"}

Actionable(m) == \E i \in 1..Len(SubjectOf(m)) : SubjectOf(m)[i] \in KEYWORDS

RECURSIVE Ascending(_)
\* The ids of a set in ascending order: the order the list call and the
\* SELECT return them in.
Ascending(S) ==
    IF S = {} THEN << >>
    ELSE LET lo == CHOOSE x \in S : \A y \in S : x <= y
         IN  <<lo>> \o Ascending(S \ {lo})

Take(s, n) == IF Len(s) <= n THEN s ELSE SubSeq(s, 1, n)

\* messages().list(q=query, maxResults=10): the unread actionable messages.
ListActionableUnread(u) ==
    Take(Ascending({m \in u : Actionable(m)}), MAX_RESULTS)

\* parsedate_to_datetime(date_str) if date_str != "N/A" else None:
\* "raise" stands for the ValueError/TypeError of an unparseable header.
ParseDate(date_str) ==
    IF date_str = "N/A" THEN NULL
    ELSE IF date_str = "not a date" THEN "raise"
    ELSE "datetime(2026, 11, 2, 10, 0, tzinfo=utc)"

\* received_at.strftime('%Y-%m-%d %H:%M:%S')
Strftime(dt) ==
    IF dt = "datetime(2026, 11, 2, 10, 0, tzinfo=utc)" THEN "2026-11-02 10:00:00"
    ELSE dt

\* base64.urlsafe_b64decode(data).decode('utf-8', errors='ignore')
B64Decode(data) ==
    CASE data = "SSBjYW4ndA" -> "I can't"
      [] data = "SGVscA"     -> "Help"
      [] data = "PGI-"       -> "<b>"
      [] OTHER               -> ""

\* The body: the first text/plain part of a multipart message ("" when there is
\* none), the payload's own body otherwise.
ExtractBody(payload) ==
    IF payload.multipart
    THEN LET plain == {i \in 1..Len(payload.parts) :
                          payload.parts[i].mimeType = "text/plain"}
         IN  IF plain = {} THEN ""
             ELSE B64Decode(payload.parts[CHOOSE i \in plain :
                                            \A j \in plain : i <= j].data)
    ELSE B64Decode(payload.data)

-----------------------------------------------------------------------------
(* The store: table `emails` *)

\* A new row: the INSERT's five columns, status by its DEFAULT, the rest NULL.
NewRow(msg_id, sender, subject, body, received_at) ==
    [gmail_msg_id |-> msg_id, sender |-> sender, subject |-> subject,
     body |-> body, received_at |-> received_at, status |-> "pending",
     sentiment |-> NULL, priority |-> NULL, customer_request |-> NULL,
     contact_info |-> NULL, generated_response |-> NULL]

Ids(tbl) == 1..Len(tbl)

\* An INSERT into a table without the UNIQUE constraint.
InsertNoUnique(tbl, row) == Append(tbl, row)

\* INSERT OR REPLACE: an existing row gives way to the new one.
InsertOrReplace(tbl, row) ==
    IF \E i \in Ids(tbl) : tbl[i].gmail_msg_id = row.gmail_msg_id
    THEN [i \in Ids(tbl) |->
            IF tbl[i].gmail_msg_id = row.gmail_msg_id THEN row ELSE tbl[i]]
    ELSE Append(tbl, row)

\* INSERT OR IGNORE under gmail_msg_id UNIQUE: the row is appended (with the
\* next AUTOINCREMENT id) unless a row with that gmail_msg_id exists.
InsertOrIgnore(tbl, row) ==
    IF \E i \in Ids(tbl) : tbl[i].gmail_msg_id = row.gmail_msg_id
    THEN tbl
    ELSE Append(tbl, row)

\* SELECT id, ... FROM emails WHERE status = 'pending'
\* SELECT ... WHERE status = 'pending' ORDER BY id DESC LIMIT 1
SelectPendingLimit1(tbl) ==
    LET pending == {i \in Ids(tbl) : tbl[i].status = "pending"} IN
    IF pending = {} THEN << >>
    ELSE <<CHOOSE i \in pending : \A j \in pending : j <= i>>

SelectPending(tbl) == Ascending({i \in Ids(tbl) : tbl[i].status = "pending"})

\* The update without its status column.
UpdateFieldsOnly(tbl, id, sentiment, priority, draft, request, contact) ==
    [tbl EXCEPT ![id] =
        [@ EXCEPT !.sentiment = sentiment, !.priority = priority,
                  !.generated_response = draft, !.customer_request = request,
                  !.contact_info = contact]]

\* UPDATE emails SET sentiment=?, priority=?, generated_response=?,
\* customer_request=?, contact_info=?, status='processed' WHERE id=?
UpdateAnalysis(tbl, id, sentiment, priority, draft, request, contact) ==
    [tbl EXCEPT ![id] =
        [@ EXCEPT !.sentiment = sentiment, !.priority = priority,
                  !.generated_response = draft, !.customer_request = request,
                  !.contact_info = contact, !.status = "processed"]]

\* The status update without its WHERE clause.
UpdateStatusAll(tbl, id, new_status) ==
    [i \in Ids(tbl) |-> [tbl[i] EXCEPT !.status = new_status]]

\* UPDATE emails SET status = ? WHERE id = ?
UpdateStatus(tbl, id, new_status) ==
    [tbl EXCEPT ![id] = [@ EXCEPT !.status = new_status]]

-----------------------------------------------------------------------------
(* The language model's responses and their parsing.                       *)
(* A response text is a sequence of tokens: single characters (fence       *)
(* marks, letters, white space) and document tokens, each standing for a   *)
(* run of characters of which only the first and the last matter to the    *)
(* strip calls.                                                            *)

WHITESPACE == {" ", "\n"}

\* The fence character (a backquote).
TICK == "<backquote>"

\* The document tokens: JSON texts, and one text that is no JSON.
DOCS == {"VALID", "NOPRIO", "ODD", "LIST", "PROSE"}

DocFirst(tok) ==
    CASE tok = "LIST"  -> "["
      [] tok = "PROSE" -> "S"
      [] OTHER         -> "{"

DocLast(tok) ==
    CASE tok = "LIST"  -> "]"
      [] tok = "PROSE" -> "."
      [] OTHER         -> "}"

\* A document cut into by a strip call.
DAMAGED == "DAMAGED"

FirstChar(tok) == IF tok \in DOCS THEN DocFirst(tok) ELSE tok
LastChar(tok)  == IF tok \in DOCS THEN DocLast(tok) ELSE tok

RECURSIVE lstrip(_, _)
\* str.lstrip(chars): drops leading characters while they are in chars.
lstrip(text, chars) ==
    IF text = << >> THEN << >>
    ELSE IF FirstChar(Head(text)) \notin chars THEN text
    ELSE IF Head(text) \in DOCS \cup {DAMAGED} THEN <<DAMAGED>> \o Tail(text)
    ELSE lstrip(Tail(text), chars)

RECURSIVE rstrip(_, _)
\* str.rstrip(chars): drops trailing characters while they are in chars.
rstrip(text, chars) ==
    IF text = << >> THEN << >>
    ELSE LET n == Len(text) IN
         IF LastChar(text[n]) \notin chars THEN text
         ELSE IF text[n] \in DOCS \cup {DAMAGED}
              THEN SubSeq(text, 1, n - 1) \o <<DAMAGED>>
         ELSE rstrip(SubSeq(text, 1, n - 1), chars)

\* str.strip()
strip(text) == rstrip(lstrip(text, WHITESPACE), WHITESPACE)

\* The cleaning without its rstrip call.
CleanNoRstrip(text) ==
    strip(lstrip(strip(text), {TICK, "j", "s", "o", "n"}))

\* response.text.strip().lstrip(<fence>json).rstrip(<fence>).strip(): the
\* argument of lstrip and rstrip is a set of characters, not a prefix.
CleanResponse(text) ==
    strip(rstrip(lstrip(strip(text), {TICK, "j", "s", "o", "n"}), {TICK}))

NONE == [type |-> "None"]
JSON_DECODE_ERROR == [type |-> "JSONDecodeError"]

\* The Python value of each JSON document.  A dict is a function from its
\* keys; None is NULL; the contact_info value is written as its Python repr.
DocValue(tok) ==
    CASE tok = "VALID" ->
            [type |-> "dict",
             val |-> [sentiment |-> "Negative", priority |-> "Urgent",
                      customer_request |-> "Cannot log in",
                      contact_info |-> "{}"]]
      [] tok = "NOPRIO" ->
            [type |-> "dict",
             val |-> [sentiment |-> "Negative",
                      customer_request |-> "Cannot log in",
                      contact_info |-> "{}"]]
      [] tok = "ODD" ->
            [type |-> "dict",
             val |-> [sentiment |-> NULL, priority |-> "High",
                      customer_request |-> "Refund",
                      contact_info |-> "{'phone': '555'}"]]
      [] tok = "LIST" ->
            [type |-> "list",
             val |-> <<"sentiment", "priority", "customer_request", "contact_info">>]
      [] OTHER -> JSON_DECODE_ERROR

\* json.loads: one JSON document, white space allowed around it.
loads(text) ==
    LET t == strip(text) IN
    IF Len(t) = 1 /\ t[1] \in DOCS THEN DocValue(t[1]) ELSE JSON_DECODE_ERROR

\* json.dumps of a contact_info value.
dumps(v) ==
    CASE v = "{}"               -> "{}"
      [] v = "{'phone': '555'}" -> "{\"phone\": \"555\"}"
      [] v = NULL               -> "null"
      [] OTHER                  -> "\"" \o v \o "\""

\* Python's `key in analysis` for a dict (its keys) and a list (its items).
Contains(analysis, key) ==
    CASE analysis.type = "dict" -> key \in DOMAIN analysis.val
      [] analysis.type = "list" ->
            \E i \in 1..Len(analysis.val) : analysis.val[i] = key
      [] OTHER -> FALSE

required_keys == {"sentiment", "priority", "customer_request", "contact_info"}

\* any(...) in place of all(...).
AnyRequiredKey(analysis) == \E key \in required_keys : Contains(analysis, key)

\* all(key in analysis for key in required_keys)
HasRequiredKeys(analysis) == \A key \in required_keys : Contains(analysis, key)

\* analyze_email_content on what the model call did: response.raised is the
\* call raising, response.text the text it returned.  The result is the parsed
\* value, or None.
analyze_email_content(response) ==
    IF response.raised THEN NONE
    ELSE LET analysis == loads(CleanResponse(response.text)) IN
         IF analysis = JSON_DECODE_ERROR THEN NONE
         ELSE IF HasRequiredKeys(analysis) THEN analysis
         ELSE NONE

RECURSIVE Join(_)
\* The string of a token sequence.
Join(text) == IF text = << >> THEN "" ELSE Head(text) \o Join(Tail(text))

\* generate_response returning None when the call raises.
GenerateNoFallback(response) ==
    IF response.raised THEN NULL ELSE Join(strip(response.text))

\* generate_response: the stripped text, or the fallback when the call raises.
generate_response(response) ==
    IF response.raised THEN FALLBACK ELSE Join(strip(response.text))

FENCE_OPEN == <<TICK, TICK, TICK, "j", "s", "o", "n", "\n">>
FENCE_CLOSE == <<"\n", TICK, TICK, TICK>>

\* What the extraction call may do.
ExtractResponses ==
    {[raised |-> TRUE, text |-> << >>]} \cup
    {[raised |-> FALSE, text |-> t] : t \in
        { FENCE_OPEN \o <<"VALID">> \o FENCE_CLOSE,
          <<"VALID">>,
          <<"NOPRIO", "\n">>,
          <<"ODD">>,
          <<TICK, TICK, TICK, "j", "s", "o", "n", "ODD", TICK, TICK, TICK>>,
          <<"LIST">>,
          <<"PROSE">> }}

\* What the draft call may do.
DraftResponses ==
    { [raised |-> TRUE, text |-> << >>],
      [raised |-> FALSE, text |-> <<" ", "Please use the Forgot Password link.", "\n">>] }

-----------------------------------------------------------------------------
(* Initial state: an empty table, an empty mailbox, no process started.    *)

MonitorIdle ==
    [pc |-> "sleep", messages |-> << >>, email_date |-> NULL,
     saved |-> "none", fault |-> "none"]

AnalyzerIdle ==
    [pc |-> "idle", exit |-> "none", pending_emails |-> << >>,
     response |-> NONE, analysis_result |-> NONE,
     draft_response |-> NULL, gen_error |-> FALSE]

\* The log of a pass that has selected `selected` and made no model call.
NewCalls(selected) ==
    [selected |-> selected, extract_calls |-> << >>, draft_calls |-> << >>]

NoCalls == NewCalls(<< >>)

Init ==
    /\ unread = {}
    /\ emails = << >>
    /\ monitor = [i \in Monitors |-> MonitorIdle]
    /\ analyzer = [a \in Analyzers |-> AnalyzerIdle]
    /\ df = << >>
    /\ calls = [a \in Analyzers |-> NoCalls]

-----------------------------------------------------------------------------
(* The provider *)

\* A message arrives unread, or a read message is delivered again as unread.
Deliver(m) ==
    /\ m \notin unread
    /\ unread' = unread \cup {m}
    /\ UNCHANGED <<emails, monitor, analyzer, df, calls>>

-----------------------------------------------------------------------------
(* The Ingestor: email_monitor.main and check_for_new_emails.              *)
(* pc: "sleep" between two cycles, "get" before the get call of the first  *)
(* of `messages`, "save" before its insert, "mark" before its modify call, *)
(* "crashed" once an exception has left main.                              *)

\* except HttpError: the cycle ends, main goes on to sleep.
HttpError(i) ==
    monitor' = [monitor EXCEPT ![i] = [MonitorIdle EXCEPT !.fault = "http"]]

\* The list call that opens a cycle.
ListMessages(i) ==
    /\ monitor[i].pc = "sleep"
    /\ \/ HttpError(i)
       \/ LET messages == ListActionableUnread(unread) IN
          monitor' = [monitor EXCEPT ![i] =
              [MonitorIdle EXCEPT !.messages = messages,
                                  !.pc = IF messages = << >> THEN "sleep" ELSE "get"]]
    /\ UNCHANGED <<unread, emails, analyzer, df, calls>>

\* The get call for the current message and the parsing of its headers.
GetMessage(i) ==
    /\ monitor[i].pc = "get"
    /\ \/ HttpError(i)
       \/ LET msg_id == Head(monitor[i].messages)
              email_date == ParseDate(DateHeaderOf(msg_id))
          IN  IF email_date = "raise"
              THEN monitor' = [monitor EXCEPT ![i].pc = "crashed",
                                              ![i].fault = "parse"]
              ELSE monitor' = [monitor EXCEPT
                      ![i].email_date = email_date,
                      ![i].pc = IF email_date # NULL THEN "save" ELSE "mark"]
    /\ UNCHANGED <<unread, emails, analyzer, df, calls>>

\* save_email_to_db: the insert, or a sqlite3.Error that is caught and printed.
SaveEmailToDb(i) ==
    /\ monitor[i].pc = "save"
    /\ LET msg_id == Head(monitor[i].messages)
           row == NewRow(msg_id, SenderOf(msg_id), SubjectOf(msg_id),
                         ExtractBody(PayloadOf(msg_id)),
                         Strftime(monitor[i].email_date))
       IN  \/ /\ emails' = InsertOrIgnore(emails, row)
              /\ monitor' = [monitor EXCEPT ![i].pc = "mark",
                    ![i].saved = IF Len(emails') > Len(emails)
                                 THEN "inserted" ELSE "ignored"]
           \/ /\ emails' = emails
              /\ monitor' = [monitor EXCEPT ![i].pc = "mark", ![i].saved = "error"]
    /\ UNCHANGED <<unread, analyzer, df, calls>>

\* The modify call that removes the UNREAD label, then the next message.
MarkRead(i) ==
    /\ monitor[i].pc = "mark"
    /\ \/ /\ HttpError(i)
          /\ unread' = unread
       \/ LET rest == Tail(monitor[i].messages) IN
          /\ unread' = unread \ {Head(monitor[i].messages)}
          /\ monitor' = [monitor EXCEPT ![i] =
                [MonitorIdle EXCEPT !.messages = rest,
                                    !.pc = IF rest = << >> THEN "sleep" ELSE "get"]]
    /\ UNCHANGED <<emails, analyzer, df, calls>>

-----------------------------------------------------------------------------
(* The Analyzer: process_email.main.                                       *)
(* pc: "idle" when no pass runs (exit tells how the last one ended),       *)
(* "extract" before the extraction call for the first of pending_emails,   *)
(* "branch" at `if analysis_result:`, "draft" before the draft call,       *)
(* "update" before the UPDATE.                                             *)

\* The pass is over: "ok" (the loop ended or nothing was pending), "dberror"
\* (sqlite3.Error caught by main), "crash" (another exception left main).
EndPass(a, how) ==
    analyzer' = [analyzer EXCEPT ![a] = [AnalyzerIdle EXCEPT !.exit = how]]

\* A loop that does not advance: the same row again.
NextEmailRepeat(a) ==
    analyzer' = [analyzer EXCEPT ![a] =
        [AnalyzerIdle EXCEPT !.pc = "extract",
                             !.pending_emails = analyzer[a].pending_emails]]

\* On to the next selected row, or the end of the loop.
NextEmail(a) ==
    LET rest == Tail(analyzer[a].pending_emails) IN
    IF rest = << >> THEN EndPass(a, "ok")
    ELSE analyzer' = [analyzer EXCEPT ![a] =
            [AnalyzerIdle EXCEPT !.pc = "extract", !.pending_emails = rest]]

\* connect and SELECT ... WHERE status = 'pending'
StartPass(a) ==
    /\ analyzer[a].pc = "idle"
    /\ \/ EndPass(a, "dberror")
       \/ LET pending_emails == SelectPending(emails) IN
          IF pending_emails = << >> THEN EndPass(a, "ok")
          ELSE analyzer' = [analyzer EXCEPT ![a] =
                  [AnalyzerIdle EXCEPT !.pc = "extract",
                                       !.pending_emails = pending_emails]]
    /\ UNCHANGED <<unread, emails, monitor, df>>

\* analyze_email_content: the extraction call and the parsing of its response.
\* What analyze_email_content returns for each response of the model.
AnalysisOf == [response \in ExtractResponses |-> analyze_email_content(response)]

ExtractWith(a, response) ==
    /\ analyzer[a].pc = "extract"
    /\ analyzer' = [analyzer EXCEPT
          ![a].pc = "branch",
          ![a].response = response,
          ![a].analysis_result = AnalysisOf[response]]
    /\ UNCHANGED <<unread, emails, monitor, df>>

Extract(a) == \E response \in ExtractResponses : ExtractWith(a, response)

\* Python truth of the result: None and empty containers are false.
Truthy(v) ==
    CASE v.type = "None" -> FALSE
      [] v.type = "dict" -> DOMAIN v.val # {}
      [] v.type = "list" -> Len(v.val) > 0
      [] OTHER -> TRUE

\* `if analysis_result:` and the four subscripts analysis_result['...'], which
\* raise TypeError on a value that is no dict.
Branch(a) ==
    /\ analyzer[a].pc = "branch"
    /\ IF ~Truthy(analyzer[a].analysis_result) THEN NextEmail(a)
       ELSE IF analyzer[a].analysis_result.type # "dict" THEN EndPass(a, "crash")
       ELSE analyzer' = [analyzer EXCEPT ![a].pc = "draft", ![a].response = NONE]
    /\ UNCHANGED <<unread, emails, monitor, df>>

\* generate_response: the draft call.
Draft(a) ==
    /\ analyzer[a].pc = "draft"
    /\ \E response \in DraftResponses :
          analyzer' = [analyzer EXCEPT
              ![a].pc = "update",
              ![a].gen_error = response.raised,
              ![a].draft_response = generate_response(response)]
    /\ UNCHANGED <<unread, emails, monitor, df>>

\* cursor.execute(update_query, ...) and conn.commit(), or a sqlite3.Error
\* that ends the pass.
UpdateCommit(a) ==
    /\ analyzer[a].pc = "update"
    /\ LET id == Head(analyzer[a].pending_emails)
           analysis_result == analyzer[a].analysis_result.val
       IN  /\ emails' = UpdateAnalysis(emails, id,
                  analysis_result["sentiment"], analysis_result["priority"],
                  analyzer[a].draft_response,
                  analysis_result["customer_request"],
                  dumps(analysis_result["contact_info"]))
           /\ NextEmail(a)
    /\ UNCHANGED <<unread, monitor, df>>

UpdateError(a) ==
    /\ analyzer[a].pc = "update"
    /\ emails' = emails
    /\ EndPass(a, "dberror")
    /\ UNCHANGED <<unread, monitor, df>>

Update(a) == UpdateCommit(a) \/ UpdateError(a)

-----------------------------------------------------------------------------
(* The dashboard: the cached frame and the resolve button.                 *)

\* load_data's frame, as far as the page reads it: each row's status.
Frame(tbl) == [id \in Ids(tbl) |-> tbl[id].status]

\* A rerun of the page after the cache's ttl: load_data reads the table again.
LoadData ==
    /\ df' = Frame(emails)
    /\ df' # df
    /\ UNCHANGED <<unread, emails, monitor, analyzer, calls>>

\* The button is drawn enabled unless the frame shows the row as resolved.
ButtonEnabled(frame, id) == frame[id] # "resolved"

\* "Mark as Resolved / Sent" on a row of the frame: update_email_status(id,
\* "resolved"), which clears the cache, and st.rerun(), which loads again.
Resolve(id) ==
    /\ id \in DOMAIN df
    /\ ButtonEnabled(df, id)
    /\ emails' = UpdateStatus(emails, id, "resolved")
    /\ df' = Frame(emails')
    /\ UNCHANGED <<unread, monitor, analyzer, calls>>

-----------------------------------------------------------------------------
(* Specifications *)

IngestorStep(i) ==
    \/ ListMessages(i)
    \/ GetMessage(i)
    \/ SaveEmailToDb(i)
    \/ MarkRead(i)

\* The Analyzer's steps, its pass not logged.
AnalyzerStep(a) ==
    \/ StartPass(a) /\ UNCHANGED calls
    \/ Extract(a) /\ UNCHANGED calls
    \/ Branch(a) /\ UNCHANGED calls
    \/ Draft(a) /\ UNCHANGED calls
    \/ Update(a) /\ UNCHANGED calls

\* The Analyzer's steps with the pass logged: the selection when it starts,
\* the row of each extraction call and of each draft call.
LoggedStep(a) ==
    LET id == Head(analyzer[a].pending_emails) IN
    \/ /\ StartPass(a)
       /\ calls' = [calls EXCEPT ![a] = NewCalls(analyzer'[a].pending_emails)]
    \/ /\ Extract(a)
       /\ calls' = [calls EXCEPT ![a].extract_calls = Append(@, id)]
    \/ Branch(a) /\ UNCHANGED calls
    \/ /\ Draft(a)
       /\ calls' = [calls EXCEPT ![a].draft_calls = Append(@, id)]
    \/ Update(a) /\ UNCHANGED calls

\* One Ingestor, one Analyzer invoked again and again, the dashboard.
Next ==
    \/ \E m \in MsgIds : Deliver(m)
    \/ IngestorStep("i1")
    \/ AnalyzerStep("a1")
    \/ LoadData
    \/ \E id \in DOMAIN df : Resolve(id)

Spec == Init /\ [][Next]_vars

\* Two Ingestor processes on the same mailbox and table.
NextIngest ==
    \/ \E m \in MsgIds : Deliver(m)
    \/ \E i \in Monitors : IngestorStep(i)

SpecIngest == Init /\ [][NextIngest]_vars

\* The messages the Ingestor stores: actionable, with a parseable date.
Storable == {m \in MsgIds : Actionable(m) /\ DateHeaderOf(m) \notin {"N/A", "not a date"}}

\* One Ingestor and two Analyzer invocations whose steps may overlap, on a
\* mailbox that receives storable messages only.
NextOverlap ==
    \/ \E m \in Storable : Deliver(m)
    \/ IngestorStep("i1")
    \/ \E a \in Analyzers : AnalyzerStep(a)

SpecOverlap == Init /\ [][NextOverlap]_vars

\* One Ingestor and one Analyzer whose passes are logged.
NextLogged ==
    \/ \E m \in MsgIds : Deliver(m)
    \/ IngestorStep("i1")
    \/ LoggedStep("a1")

SpecLogged == Init /\ [][NextLogged]_vars

\* The responses from which the extraction returns an object with the four keys.
OkResponses ==
    {response \in ExtractResponses : AnalysisOf[response].type = "dict"}

ExtractOk(a) ==
    /\ \E response \in OkResponses : ExtractWith(a, response)
    /\ UNCHANGED calls

\* An update that the store accepts.
UpdateOk(a) == UpdateCommit(a) /\ UNCHANGED calls

\* One Ingestor and one Analyzer on a mailbox of storable messages.
NextRetry ==
    \/ \E m \in Storable : Deliver(m)
    \/ IngestorStep("i1")
    \/ AnalyzerStep("a1")

\* The Analyzer is invoked again and again and keeps running once started;
\* the extraction call does not fail for ever, nor does the store.
SpecRetry ==
    /\ Init
    /\ [][NextRetry]_vars
    /\ WF_vars(AnalyzerStep("a1"))
    /\ SF_vars(ExtractOk("a1"))
    /\ SF_vars(UpdateOk("a1"))

-----------------------------------------------------------------------------
(* Properties *)

\* The step is one of process p of the family proc (monitor or analyzer).
Stepped(proc, p) == proc'[p] # proc[p]

RowsOf(tbl, msg_id) == {id \in Ids(tbl) : tbl[id].gmail_msg_id = msg_id}

AnalysisFields(row) ==
    <<row.sentiment, row.priority, row.customer_request, row.contact_info,
      row.generated_response>>

\* C1: no row's status ever regresses: a processed row is never pending
\* again, and a resolved row stays resolved.
C1_ForwardOnlyStatus ==
    [][\A id \in Ids(emails) :
          /\ emails[id].status = "processed" => emails'[id].status # "pending"
          /\ emails[id].status = "resolved" => emails'[id].status = "resolved"]_vars

\* C2: every row whose status is not pending has all five analysis fields
\* non-null.
C2_NoPartialAnalysis ==
    \A id \in Ids(emails) :
        emails[id].status # "pending" =>
            \A k \in 1..5 : AnalysisFields(emails[id])[k] # NULL

\* C3: no two rows share a gmail_msg_id, and once an insert attempt for a
\* message id has completed (as a new row or as a no-op) the table holds
\* exactly one row with that id.
C3_UniqueExternalId ==
    /\ \A id1, id2 \in Ids(emails) :
          emails[id1].gmail_msg_id = emails[id2].gmail_msg_id => id1 = id2
    /\ \A i \in Monitors :
          monitor[i].saved \in {"inserted", "ignored"} =>
              Cardinality(RowsOf(emails, Head(monitor[i].messages))) = 1

\* Two Ingestor runs have both completed an insert attempt for the same
\* message: one inserted the row, the other's insert was ignored.
C3_Witness ==
    \E i, j \in Monitors :
        /\ monitor[i].saved = "inserted"
        /\ monitor[j].saved = "ignored"
        /\ Head(monitor[i].messages) = Head(monitor[j].messages)

\* The extraction call returned a text that does not parse, or that parses to
\* an object lacking one of the four required keys.
C4_Rejected(response) ==
    /\ ~response.raised
    /\ LET v == loads(CleanResponse(response.text)) IN
          \/ v = JSON_DECODE_ERROR
          \/ v.type = "dict" /\ ~(required_keys \subseteq DOMAIN v.val)

\* C4: when the extraction response fails to parse or lacks a required key,
\* the Analyzer leaves the table as it is and goes on to the next row (or ends
\* the pass): no draft call, no update, no default in place of the key.
C4_ExtractionFailureSafety ==
    [][\A a \in Analyzers :
          ( /\ analyzer[a].pc = "branch"
            /\ C4_Rejected(analyzer[a].response)
            /\ Stepped(analyzer, a) ) =>
          /\ emails' = emails
          /\ analyzer'[a].pc \in {"extract", "idle"}
          /\ analyzer'[a].exit \in {"none", "ok"}
          /\ analyzer'[a].pending_emails = Tail(analyzer[a].pending_emails)]_vars

\* A response without the priority key has come back for a row that is
\* pending with no analysis field set.
C4_Witness ==
    \E a \in Analyzers :
        /\ analyzer[a].pc = "branch"
        /\ ~analyzer[a].response.raised
        /\ analyzer[a].response.text = <<"NOPRIO", "\n">>
        /\ LET row == emails[Head(analyzer[a].pending_emails)] IN
              /\ row.status = "pending"
              /\ AnalysisFields(row) = <<NULL, NULL, NULL, NULL, NULL>>

\* C5: when the draft call fails after a successful extraction, the pass goes
\* on to the update with the fallback literal, and the update (unless the store
\* raises) leaves the row processed with the fallback as generated_response
\* and the extracted values in the four other fields.
C5_DraftFallback ==
    [][\A a \in Analyzers :
          /\ ( /\ analyzer[a].pc = "draft"
               /\ Stepped(analyzer, a)
               /\ analyzer'[a].gen_error ) =>
                  /\ analyzer'[a].pc = "update"
                  /\ analyzer'[a].draft_response = FALLBACK
                  /\ analyzer'[a].analysis_result = analyzer[a].analysis_result
                  /\ analyzer'[a].pending_emails = analyzer[a].pending_emails
                  /\ emails' = emails
          /\ ( /\ analyzer[a].pc = "update"
               /\ analyzer[a].gen_error
               /\ Stepped(analyzer, a)
               /\ analyzer'[a].exit # "dberror" ) =>
                  LET row == emails'[Head(analyzer[a].pending_emails)]
                      extracted == analyzer[a].analysis_result.val
                  IN  /\ row.status = "processed"
                      /\ row.generated_response = FALLBACK
                      /\ row.sentiment = extracted["sentiment"]
                      /\ row.priority = extracted["priority"]
                      /\ row.customer_request = extracted["customer_request"]
                      /\ row.contact_info = dumps(extracted["contact_info"])]_vars

\* A row processed with the fallback draft and the extracted values of the
\* valid response.
C5_Witness ==
    \E id \in Ids(emails) :
        /\ emails[id].status = "processed"
        /\ emails[id].generated_response = FALLBACK
        /\ emails[id].sentiment = "Negative"
        /\ emails[id].priority = "Urgent"
        /\ emails[id].customer_request = "Cannot log in"
        /\ emails[id].contact_info = "{}"

\* C6: the Ingestor issues the mark-read call for a message only after the
\* insert attempt for that message has completed as a new row or a no-op.
C6_MarkReadAfterStoreWrite ==
    [][\A i \in Monitors :
          ( /\ monitor[i].pc = "mark"
            /\ Stepped(monitor, i)
            /\ monitor'[i].fault # "http" ) =>
          monitor[i].saved \in {"inserted", "ignored"}]_vars

\* C7: a store error ends the pass at the failing record: the Ingestor makes
\* no provider mutation and no store write after it and its cycle is over; the
\* Analyzer's pass ends with the table as it was.
C7_StoreErrorAbortsPass ==
    [][/\ \A i \in Monitors :
             (monitor[i].saved = "error" /\ Stepped(monitor, i)) =>
                 /\ unread' = unread
                 /\ emails' = emails
                 /\ monitor'[i].pc = "sleep"
                 /\ monitor'[i].messages = << >>
       /\ \A a \in Analyzers :
             (Stepped(analyzer, a) /\ analyzer'[a].exit = "dberror") =>
                 /\ emails' = emails
                 /\ analyzer'[a].pc = "idle"]_vars

\* C8: a cycle that a provider call or the parsing of a message has failed in
\* leaves the polling loop alive, waiting for the next interval.
C8_FailureEndsOnlyCycle ==
    \A i \in Monitors : monitor[i].fault # "none" => monitor[i].pc = "sleep"

\* C9: a message whose Date header is missing or unparseable is never
\* inserted and never raises: the Ingestor goes on to mark it read.
C9_BadTimestampSkipped ==
    \A m \in MsgIds :
        DateHeaderOf(m) \in {"N/A", "not a date"} =>
            /\ RowsOf(emails, m) = {}
            /\ \A i \in Monitors :
                  (monitor[i].messages # << >> /\ Head(monitor[i].messages) = m) =>
                      monitor[i].pc \in {"get", "mark"}

\* C10: a row's status changes only from pending to processed and from
\* processed to resolved.
C10_ResolveOnlyProcessed ==
    [][\A id \in Ids(emails) :
          emails'[id].status # emails[id].status =>
              <<emails[id].status, emails'[id].status>> \in
                  {<<"pending", "processed">>, <<"processed", "resolved">>}]_vars

\* The step is the dashboard's: it writes the table and is no process's.
ResolveStep == emails' # emails /\ monitor' = monitor /\ analyzer' = analyzer

\* C11: the resolve action changes the status of one row and nothing else:
\* that row's other columns and every other row stay as they were.
C11_ResolveChangesStatusOnly ==
    [][ResolveStep =>
          /\ Len(emails') = Len(emails)
          /\ \E id \in Ids(emails) :
                /\ emails'[id].status = "resolved"
                /\ \A f \in DOMAIN emails[id] \ {"status"} :
                      emails'[id][f] = emails[id][f]
                /\ \A other \in Ids(emails) \ {id} :
                      emails'[other] = emails[other]]_vars

\* An analysed row has been resolved and keeps its analysis, beside another
\* row that is still processed.
C11_Witness ==
    \E id, other \in Ids(emails) :
        /\ id # other
        /\ emails[id].status = "resolved"
        /\ emails[id].sentiment = "Negative"
        /\ emails[id].generated_response = FALLBACK
        /\ emails[other].status = "processed"

\* C12: every pending row has all five analysis fields absent, also between
\* the steps of a running pass.
C12_PendingHasNoAnalysis ==
    \A id \in Ids(emails) :
        emails[id].status = "pending" =>
            AnalysisFields(emails[id]) = <<NULL, NULL, NULL, NULL, NULL>>

\* A pass holds the extraction result and the draft of a row and has not
\* written them yet: the row is pending with no field set.
C12_Witness ==
    \E a \in Analyzers :
        /\ analyzer[a].pc = "update"
        /\ analyzer[a].draft_response # NULL
        /\ LET row == emails[Head(analyzer[a].pending_emails)] IN
              /\ row.status = "pending"
              /\ AnalysisFields(row) = <<NULL, NULL, NULL, NULL, NULL>>

\* The document tokens of a text, without what surrounds them.
Unwrapped(text) == SelectSeq(text, LAMBDA tok : tok \in DOCS)

\* The text is one JSON object between a leading fence and a trailing fence.
FencedObject(text) ==
    /\ Len(text) > 1
    /\ Head(text) = TICK
    /\ text[Len(text)] = TICK
    /\ Len(Unwrapped(text)) = 1
    /\ DocFirst(Unwrapped(text)[1]) = "{"

\* C14: a response that is a JSON object inside a fence is cleaned to exactly
\* the object (no character of it is removed) and gives the same analysis
\* result as the object alone.
C14_FenceStripping ==
    \A a \in Analyzers :
        (analyzer[a].pc = "branch" /\ ~analyzer[a].response.raised
            /\ FencedObject(analyzer[a].response.text)) =>
        LET bare == Unwrapped(analyzer[a].response.text) IN
        /\ CleanResponse(analyzer[a].response.text) = bare
        /\ CleanResponse(bare) = bare
        /\ analyzer[a].analysis_result =
              analyze_email_content([raised |-> FALSE, text |-> bare])

\* A fenced object has been parsed into its dict.
C14_Witness ==
    \E a \in Analyzers :
        /\ analyzer[a].pc = "branch"
        /\ ~analyzer[a].response.raised
        /\ FencedObject(analyzer[a].response.text)
        /\ analyzer[a].analysis_result.type = "dict"

\* The extraction gave nothing usable: the call raised, the text did not
\* parse, or it parsed to something that is no object with the four keys.
C16_Failed(response) ==
    \/ response.raised
    \/ LET v == loads(CleanResponse(response.text)) IN
          \/ v = JSON_DECODE_ERROR
          \/ v.type # "dict"
          \/ ~(required_keys \subseteq DOMAIN v.val)

\* C16: a failed or rejected extraction does not end the pass: the pass goes
\* on to the next selected row, or ends normally after the last one.
C16_FailureDoesNotEndPass ==
    [][\A a \in Analyzers :
          ( /\ analyzer[a].pc = "branch"
            /\ C16_Failed(analyzer[a].response)
            /\ Stepped(analyzer, a) ) =>
          /\ analyzer'[a].exit \in {"none", "ok"}
          /\ analyzer'[a].pending_emails = Tail(analyzer[a].pending_emails)
          /\ analyzer'[a].pc =
                IF Tail(analyzer[a].pending_emails) = << >>
                THEN "idle" ELSE "extract"]_vars

\* C17: every stored sentiment is absent or one of the three values, every
\* stored priority absent or one of the two.
C17_EnumeratedValues ==
    \A id \in Ids(emails) :
        /\ emails[id].sentiment \in {NULL, "Positive", "Negative", "Neutral"}
        /\ emails[id].priority \in {NULL, "Urgent", "Not urgent"}

\* C18: an insert attempt for a message id that is already stored leaves the
\* whole table, and so the existing row, as it was.
C18_InsertLeavesExistingRow ==
    [][\A i \in Monitors :
          ( /\ monitor[i].pc = "save"
            /\ Stepped(monitor, i)
            /\ RowsOf(emails, Head(monitor[i].messages)) # {} ) =>
          emails' = emails]_vars

\* An insert attempt was ignored for a message whose row is resolved with its
\* analysis in place.
C18_Witness ==
    \E i \in Monitors :
        /\ monitor[i].saved = "ignored"
        /\ \E id \in RowsOf(emails, Head(monitor[i].messages)) :
              /\ emails[id].status = "resolved"
              /\ emails[id].sentiment = "Negative"

\* C20: the Analyzer's update of a row that is resolved at the time of the
\* write leaves it resolved.
C20_UpdateKeepsResolved ==
    [][\A a \in Analyzers :
          ( /\ analyzer[a].pc = "update"
            /\ Stepped(analyzer, a)
            /\ emails[Head(analyzer[a].pending_emails)].status = "resolved" ) =>
          emails'[Head(analyzer[a].pending_emails)].status = "resolved"]_vars

\* C15: the Analyzer's update is applied to a row at most once: no pass
\* writes a row that a pass has already written as processed.
C15_UpdateAtMostOnce ==
    [][\A a \in Analyzers :
          ( /\ analyzer[a].pc = "update"
            /\ Stepped(analyzer, a)
            /\ analyzer'[a].exit # "dberror" ) =>
          emails[Head(analyzer[a].pending_emails)].status # "processed"]_vars

C15_Witness ==
    \E a \in Analyzers :
        /\ analyzer[a].pc = "update"
        /\ emails[Head(analyzer[a].pending_emails)].status = "pending"

Range(seq) == {seq[i] : i \in 1..Len(seq)}

\* C13: every pass that reads the store selects every row that is pending,
\* the rows an earlier pass left pending after a failed extraction included;
\* and when the Analyzer is invoked again and again, the extraction does not
\* fail for ever and the store accepts the update, every pending row is
\* eventually processed.
C13_PendingRetried ==
    /\ [][\A a \in Analyzers :
             ( /\ analyzer[a].pc = "idle"
               /\ Stepped(analyzer, a)
               /\ analyzer'[a].exit # "dberror" ) =>
             \A id \in Ids(emails) :
                 emails[id].status = "pending" =>
                     id \in Range(analyzer'[a].pending_emails)]_vars
    /\ \A id \in MsgIds :
          (id \in Ids(emails) /\ emails[id].status = "pending")
              ~> (id \in Ids(emails) /\ emails[id].status = "processed")

\* A pass has processed row 2 and left row 1, selected before it, pending
\* after a failed extraction; a later pass has selected row 1 again.
C13_Witness ==
    /\ analyzer["a1"].pc = "extract"
    /\ analyzer["a1"].pending_emails = <<1>>
    /\ Len(emails) = 2
    /\ emails[1].status = "pending"
    /\ emails[2].status = "processed"

\* The work left in a pass: four steps for each row still to handle, less the
\* steps taken for the current row.
Stage(pc) ==
    CASE pc = "extract" -> 0
      [] pc = "branch"  -> 1
      [] pc = "draft"   -> 2
      [] pc = "update"  -> 3
      [] OTHER          -> 0

Measure(a) == 4 * Len(analyzer[a].pending_emails) - Stage(analyzer[a].pc)

IsPrefix(s, t) == Len(s) <= Len(t) /\ s = SubSeq(t, 1, Len(s))

NoDuplicates(seq) == \A i, j \in 1..Len(seq) : seq[i] = seq[j] => i = j

\* C19 (as stated): a pass that ends, other than by an uncaught exception,
\* has made exactly one extraction call for each row it selected.
C19_OneExtractionPerSelected ==
    [][\A a \in Analyzers :
          ( /\ analyzer[a].pc # "idle"
            /\ analyzer'[a].pc = "idle"
            /\ analyzer'[a].exit # "crash" ) =>
          calls'[a].extract_calls = calls'[a].selected]_vars

\* C19 (amended): a pass terminates (each of its steps lowers a measure that
\* is never negative, and a step is possible while it runs); it makes at most
\* one extraction call for each row it selected, in the order of selection,
\* and exactly one for each when it runs to the end of its loop; it makes at
\* most one draft call for a row, and only after the extraction for that row
\* returned an object with the four keys; and it writes no row but the rows
\* it selected.
C19_PassBounded ==
    [][\A a \in Analyzers :
          /\ IsPrefix(calls'[a].extract_calls, calls'[a].selected)
          /\ NoDuplicates(calls'[a].draft_calls)
          /\ Range(calls'[a].draft_calls) \subseteq Range(calls'[a].extract_calls)
          /\ Measure(a) >= 0
          /\ analyzer[a].pc # "idle" => ENABLED LoggedStep(a)
          /\ Stepped(analyzer, a) =>
                /\ analyzer[a].pc # "idle" => Measure(a)' < Measure(a)
                /\ ( analyzer[a].pc # "idle" /\ analyzer'[a].pc = "idle"
                     /\ analyzer'[a].exit = "ok" ) =>
                      calls'[a].extract_calls = calls'[a].selected
                /\ analyzer[a].pc = "draft" =>
                      /\ analyzer[a].analysis_result.type = "dict"
                      /\ HasRequiredKeys(analyzer[a].analysis_result)
                      /\ Head(analyzer[a].pending_emails) =
                            calls[a].extract_calls[Len(calls[a].extract_calls)]
                /\ Len(emails') = Len(emails)
                /\ \A id \in Ids(emails) :
                      id \notin Range(calls'[a].selected) => emails'[id] = emails[id]
       ]_vars

\* A pass over rows 1 and 2 has run to the end of its loop: the extraction
\* failed for row 1, which is still pending, and succeeded for row 2, which
\* is processed.
C19_Witness ==
    /\ analyzer["a1"].pc = "idle"
    /\ analyzer["a1"].exit = "ok"
    /\ calls["a1"].selected = <<1, 2>>
    /\ calls["a1"].extract_calls = <<1, 2>>
    /\ calls["a1"].draft_calls = <<2>>
    /\ emails[1].status = "pending"
    /\ emails[2].status = "processed"

\* C21: no message is lost by the Ingestor: whenever a message is marked read
\* at the provider, the store holds a row with its external id (rows are
\* never deleted, so the row is there in every later state).
C21_MarkedReadIsStored ==
    [][\A m \in unread \ unread' : RowsOf(emails', m) # {}]_vars

====
